---- MODULE Spec2Model ----
(***************************************************************************)
(* Model of RustGame: the Player motion state machine                      *)
(* (src/actors/player.rs), the key translator (src/game_inputs.rs), the    *)
(* pickup objects (src/actors/coin.rs, object.rs) and the frame driver     *)
(* with its contact handler (src/main.rs).                                 *)
(*                                                                         *)
(* Numbers.  Lengths and speeds are f32 in the source.  Every speed the    *)
(* integrator produces is a sum of multiples of MOVE_ACCEL = 150/60,       *)
(* STOP_ACCEL = 350/60 and FALL_ACCEL = 360/60, so the model counts        *)
(* lengths in sixths of a world unit (Scale) and keeps them as integers.   *)
(* Times are f64 seconds in the source; the model counts them in 1/600 s   *)
(* (TimeScale), which makes jump_duration an integer for every speed in    *)
(* sixths.  The arithmetic of the model is exact: the rounding of          *)
(* STOP_ACCEL = 35/6 to the nearest f32 is not represented.                *)
(*                                                                         *)
(* Player.time is set by Player::new and never written again, so it stays  *)
(* at the 1.0 MainState::new passes (TimeScale in model units).            *)
(*                                                                         *)
(* Specifications.  Spec is the frame driver with the three keys the       *)
(* player reacts to and the contact events between player and ground;      *)
(* SpecPickup adds every contact event the collision world can name;       *)
(* SpecRun follows the direction keys over more ticks; SpecKeys lets two   *)
(* direction keys be held at once; SpecSetup runs the frame driver without *)
(* enforcing the order of main()'s setup calls.  They share Init and the   *)
(* actions and differ in what the environment (keyboard, collision world,  *)
(* setup order) does.                                                      *)
(***************************************************************************)
EXTENDS Integers, Sequences, FiniteSets, TLC

VARIABLES player, coin, vending, score, win_bool, gameInput, world,
          pc, pending, ticks, op

vars == <<player, coin, vending, score, win_bool, gameInput, world,
          pc, pending, ticks, op>>

\* ---------------------------------------------------------------- bounds
MaxTicks == 2
RunTicks == 7
MaxContacts == 1
MaxHeld == 1

\* ------------------------------------------------------------- constants
Scale == 6
TimeScale == 600
MOVE_ACCEL == 15
STOP_ACCEL == 35
FALL_ACCEL == 36
JUMP_SPEED == 360
MAX_FALL_SPEED == 240
MAX_MOVE_SPEED == 60
GRAPHIC_STEP_DURATION == 96
WINDOW_HEIGHT == 6480
WINDOW_WIDTH == 11520
FERRIS_HEIGHT == 1002
FERRIS_WIDTH == 1356
COIN_SCORE == 1337

\* Option<CollisionObjectHandle>::None
NoHandle == -1

Abs(n) == IF n < 0 THEN -n ELSE n
Max(a, b) == IF a > b THEN a ELSE b
Min(a, b) == IF a < b THEN a ELSE b
\* the mathematical sign, 0 at 0
signum_math(n) == IF n < 0 THEN -1 ELSE IF n = 0 THEN 0 ELSE 1

\* f64::signum: 1.0 for +0.0 and every positive number, -1.0 for negatives
signum(n) == IF n < 0 THEN -1 ELSE 1

\* jump_duration(x_speed) = 0.21 + 0.10 * (x_speed / MAX_MOVE_SPEED)
jump_duration(x_speed) == 126 + x_speed

\* Direction::movement
movement(dir) == IF dir = "Left" THEN -1 ELSE 1

\* Direction::fromKey
fromKey(keycode) == IF keycode \in {"Left", "Right"} THEN keycode ELSE "None"

\* ------------------------------------------------------------ step queue
\* actors::step_queue is not among the sources; modelled from the design
\* text: FIFO of tags, enqueuing a tag already present is a no-op, pop
\* takes the front request (no request: nothing to dispatch).
StepQueue_new == << >>

peek_specific(q, tag) ==
    IF \E i \in 1..Len(q) : q[i] = tag THEN q ELSE Append(q, tag)

pop(q) ==
    IF q = << >> THEN [step |-> "None", queue |-> q]
    ELSE [step |-> Head(q), queue |-> Tail(q)]

\* ---------------------------------------------------------------- Player
\* set_movement without the return to Jumping of an airborne actor
set_movement_noair(p, mv) ==
    IF p.currentState \in {"Jumping", "Walking"}
    THEN LET moving == (mv # "None")
             dir == IF mv # "None" THEN mv ELSE p.dir
             p2 == IF p.moving # moving \/ p.dir # dir
                   THEN [p EXCEPT !.state_start_time = p.time] ELSE p
         IN  [p2 EXCEPT !.moving = moving, !.dir = dir]
    ELSE [p EXCEPT !.moving = FALSE]

\* Player::set_movement
set_movement(p, mv) ==
    LET p1 == IF ~p.grounded /\ p.currentState # "Jumping"
              THEN [p EXCEPT !.currentState = "Jumping"] ELSE p
    IN  IF p1.currentState \in {"Jumping", "Walking"}
        THEN LET moving == (mv # "None")
                 dir == IF mv # "None" THEN mv ELSE p1.dir
                 p2 == IF p1.moving # moving \/ p1.dir # dir
                       THEN [p1 EXCEPT !.state_start_time = p1.time] ELSE p1
             IN  [p2 EXCEPT !.moving = moving, !.dir = dir]
        ELSE [p1 EXCEPT !.moving = FALSE]

\* Bookkeeping carried in the player record next to the fields of Player:
\*   steps_run   executions of step() within the running operation
\*   last_input  the last event input() received within the running operation
\*   reqs        step requests made since the queue was last popped:
\*               0, 1, or 2 for two or more
\*   drained     the value of reqs at the pop of the running operation
\* Player::new(pos, time, move_dir)
Player_new(time, move_dir) ==
    set_movement(
      [time |-> time, state_start_time |-> time,
       pos |-> [x |-> -1920 * Scale, y |-> 0],
       dir |-> "Right", currentState |-> "Jumping",
       moving |-> FALSE, grounded |-> FALSE, jump_time |-> time,
       velocity |-> [x |-> 0, y |-> 0],
       col_handle |-> NoHandle, step_queue |-> StepQueue_new,
       steps_run |-> 0, last_input |-> "None", reqs |-> 0, drained |-> 0],
      move_dir)

\* update_movement without the clamp of velocity.x
update_movement_noclamp(p) ==
    LET vy == IF p.currentState = "Jumping"
              THEN Max(p.velocity.y, -MAX_FALL_SPEED) ELSE 0
    IN  [p EXCEPT !.velocity = [x |-> p.velocity.x, y |-> vy]]

\* update_movement whose else branch snaps to the fall speed (the
\* assignment of update_grounded's near-ground case) instead of zero
update_movement_fallsnap(p) ==
    LET vx == Min(Max(p.velocity.x, -MAX_MOVE_SPEED), MAX_MOVE_SPEED)
        vy == IF p.currentState = "Jumping"
              THEN Max(p.velocity.y, -MAX_FALL_SPEED) ELSE -MAX_FALL_SPEED
    IN  [p EXCEPT !.velocity = [x |-> vx, y |-> vy]]

\* update_movement without the clamp of the fall speed
update_movement_nofallclamp(p) ==
    LET vx == Min(Max(p.velocity.x, -MAX_MOVE_SPEED), MAX_MOVE_SPEED)
        vy == IF p.currentState = "Jumping" THEN p.velocity.y ELSE 0
    IN  [p EXCEPT !.velocity = [x |-> vx, y |-> vy]]

\* Player::update_movement
update_movement(p) ==
    LET vx == Min(Max(p.velocity.x, -MAX_MOVE_SPEED), MAX_MOVE_SPEED)
        vy == IF p.currentState = "Jumping"
              THEN Max(p.velocity.y, -MAX_FALL_SPEED) ELSE 0
    IN  [p EXCEPT !.velocity = [x |-> vx, y |-> vy]]

\* Player::update_grounded
update_grounded(p, near_ground) ==
    LET on_ground == p.velocity.y = 0 /\ p.currentState # "Jumping"
    IN  IF ~p.grounded /\ on_ground
        THEN update_movement([p EXCEPT
                 !.state_start_time = p.time - GRAPHIC_STEP_DURATION,
                 !.grounded = TRUE])
        ELSE IF p.grounded /\ ~on_ground /\ ~near_ground
        THEN update_movement([p EXCEPT
                 !.state_start_time = p.time, !.grounded = FALSE])
        ELSE IF p.grounded /\ ~on_ground /\ near_ground
        THEN [p EXCEPT !.velocity.y = -MAX_FALL_SPEED]
        ELSE p

\* step that applies gravity only once the jump timer has run out
step_timer_only(p) ==
    LET stop_accel == IF p.grounded THEN STOP_ACCEL ELSE MOVE_ACCEL
        rel0 == IF p.velocity.x # 0 THEN p.velocity.x ELSE 0
        rel1 == IF p.moving
                THEN LET accel == IF movement(p.dir) = signum(rel0)
                                  THEN MOVE_ACCEL ELSE stop_accel
                     IN  rel0 + movement(p.dir) * accel
                ELSE IF p.grounded
                THEN IF Abs(rel0) > stop_accel
                     THEN rel0 - signum(rel0) * stop_accel ELSE 0
                ELSE rel0
        vy == IF p.time > p.jump_time
              THEN p.velocity.y - FALL_ACCEL ELSE p.velocity.y
        p1 == [p EXCEPT !.velocity = [x |-> rel1, y |-> vy],
                        !.pos = [x |-> p.pos.x + rel1, y |-> p.pos.y + vy],
                        !.steps_run = p.steps_run + 1]
    IN  update_grounded(update_movement(p1), FALSE)

\* step whose deceleration without intent always subtracts stop_accel
step_nosnap(p) ==
    LET stop_accel == IF p.grounded THEN STOP_ACCEL ELSE MOVE_ACCEL
        rel0 == IF p.velocity.x # 0 THEN p.velocity.x ELSE 0
        rel1 == IF p.moving
                THEN LET accel == IF movement(p.dir) = signum(rel0)
                                  THEN MOVE_ACCEL ELSE stop_accel
                     IN  rel0 + movement(p.dir) * accel
                ELSE IF p.grounded
                THEN rel0 - signum(rel0) * stop_accel
                ELSE rel0
        vy == IF p.time > p.jump_time \/ ~p.grounded
              THEN p.velocity.y - FALL_ACCEL ELSE p.velocity.y
        p1 == [p EXCEPT !.velocity = [x |-> rel1, y |-> vy],
                        !.pos = [x |-> p.pos.x + rel1, y |-> p.pos.y + vy],
                        !.steps_run = p.steps_run + 1]
    IN  update_grounded(update_movement(p1), FALSE)

\* step that turns the actor to face the way it moves
step_facevelocity(p) ==
    LET stop_accel == IF p.grounded THEN STOP_ACCEL ELSE MOVE_ACCEL
        rel0 == IF p.velocity.x # 0 THEN p.velocity.x ELSE 0
        rel1 == IF p.moving
                THEN LET accel == IF movement(p.dir) = signum(rel0)
                                  THEN MOVE_ACCEL ELSE stop_accel
                     IN  rel0 + movement(p.dir) * accel
                ELSE IF p.grounded
                THEN IF Abs(rel0) > stop_accel
                     THEN rel0 - signum(rel0) * stop_accel ELSE 0
                ELSE rel0
        vy == IF p.time > p.jump_time \/ ~p.grounded
              THEN p.velocity.y - FALL_ACCEL ELSE p.velocity.y
        p1 == [p EXCEPT !.velocity = [x |-> rel1, y |-> vy],
                        !.pos = [x |-> p.pos.x + rel1, y |-> p.pos.y + vy],
                        !.dir = IF rel1 < 0 THEN "Left"
                                ELSE IF rel1 > 0 THEN "Right" ELSE p.dir,
                        !.steps_run = p.steps_run + 1]
    IN  update_grounded(update_movement(p1), FALSE)

\* step whose jump timer test is >= instead of >
step_gravity_ge(p) ==
    LET stop_accel == IF p.grounded THEN STOP_ACCEL ELSE MOVE_ACCEL
        rel0 == IF p.velocity.x # 0 THEN p.velocity.x ELSE 0
        rel1 == IF p.moving
                THEN LET accel == IF movement(p.dir) = signum(rel0)
                                  THEN MOVE_ACCEL ELSE stop_accel
                     IN  rel0 + movement(p.dir) * accel
                ELSE IF p.grounded
                THEN IF Abs(rel0) > stop_accel
                     THEN rel0 - signum(rel0) * stop_accel ELSE 0
                ELSE rel0
        vy == IF p.time >= p.jump_time \/ ~p.grounded
              THEN p.velocity.y - FALL_ACCEL ELSE p.velocity.y
        p1 == [p EXCEPT !.velocity = [x |-> rel1, y |-> vy],
                        !.pos = [x |-> p.pos.x + rel1, y |-> p.pos.y + vy],
                        !.steps_run = p.steps_run + 1]
    IN  update_grounded(update_movement(p1), FALSE)

\* Player::step
step(p) ==
    LET stop_accel == IF p.grounded THEN STOP_ACCEL ELSE MOVE_ACCEL
        rel0 == IF p.velocity.x # 0 THEN p.velocity.x ELSE 0
        rel1 == IF p.moving
                THEN LET accel == IF movement(p.dir) = signum(rel0)
                                  THEN MOVE_ACCEL ELSE stop_accel
                     IN  rel0 + movement(p.dir) * accel
                ELSE IF p.grounded
                THEN IF Abs(rel0) > stop_accel
                     THEN rel0 - signum(rel0) * stop_accel ELSE 0
                ELSE rel0
        vy == IF p.time > p.jump_time \/ ~p.grounded
              THEN p.velocity.y - FALL_ACCEL ELSE p.velocity.y
        p1 == [p EXCEPT !.velocity = [x |-> rel1, y |-> vy],
                        !.pos = [x |-> p.pos.x + rel1, y |-> p.pos.y + vy],
                        !.steps_run = p.steps_run + 1]
    IN  update_grounded(update_movement(p1), FALSE)

\* self.step_queue.peek_specific(Step::Player), as input() and jump() call it
request_step(p) ==
    [p EXCEPT !.step_queue = peek_specific(p.step_queue, "Player"),
              !.reqs = Min(p.reqs + 1, 2)]

\* advance that reads the front request without removing it
advance_nopop(p) ==
    LET r == pop(p.step_queue)
        p1 == [p EXCEPT !.drained = p.reqs]
    IN  IF r.step = "Player" THEN step(p1) ELSE p1

\* Player::advance
advance(p) ==
    LET r == pop(p.step_queue)
        p1 == [p EXCEPT !.step_queue = r.queue, !.drained = p.reqs, !.reqs = 0]
    IN  IF r.step = "Player" THEN step(p1) ELSE p1

\* jump that never sets the launch speed
jump_nolaunch(p) ==
    IF p.grounded
    THEN LET p1 == [p EXCEPT !.grounded = FALSE,
                             !.state_start_time = p.time,
                             !.jump_time = p.time + jump_duration(Abs(p.velocity.x))]
             p2 == IF p1.moving THEN set_movement(p1, p1.dir)
                   ELSE set_movement(p1, "None")
         IN  request_step(p2)
    ELSE p

\* jump that takes the duration from the signed speed (no abs())
jump_noabs(p) ==
    IF p.grounded
    THEN LET p1 == [p EXCEPT !.grounded = FALSE,
                             !.state_start_time = p.time,
                             !.jump_time = p.time + jump_duration(p.velocity.x),
                             !.velocity.y = JUMP_SPEED]
             p2 == IF p1.moving THEN set_movement(p1, p1.dir)
                   ELSE set_movement(p1, "None")
         IN  request_step(p2)
    ELSE p

\* Player::jump
jump(p) ==
    IF p.grounded
    THEN LET p1 == [p EXCEPT !.grounded = FALSE,
                             !.state_start_time = p.time,
                             !.jump_time = p.time + jump_duration(Abs(p.velocity.x)),
                             !.velocity.y = JUMP_SPEED]
             p2 == IF p1.moving THEN set_movement(p1, p1.dir)
                   ELSE set_movement(p1, "None")
         IN  request_step(p2)
    ELSE p

\* UpdateMovement that leaves the motion state as it finds it on a release
input_UpdateMovement_keepstate(p, d) ==
    LET p0 == IF d # "None" THEN [p EXCEPT !.dir = d] ELSE p
    IN  IF d = "None"
        THEN LET p1 == set_movement(p0, "None")
             IN  request_step([p1 EXCEPT !.moving = FALSE])
        ELSE IF p0.currentState = "Jumping" /\ ~p0.grounded
        THEN LET p1 == set_movement(p0, d)
             IN  request_step(p1)
        ELSE LET p1 == set_movement([p0 EXCEPT !.currentState = "Walking"], d)
             IN  request_step(p1)

\* UpdateMovement(Some(d)) that never enters Walking
input_UpdateMovement_nowalk(p, d) ==
    LET p0 == IF d # "None" THEN [p EXCEPT !.dir = d] ELSE p
    IN  IF d = "None"
        THEN LET p1 == set_movement([p0 EXCEPT !.currentState = "Idle"], "None")
             IN  request_step([p1 EXCEPT !.moving = FALSE])
        ELSE LET p1 == set_movement(p0, d)
             IN  request_step(p1)

\* Player::input, event UpdateMovement(d), d in {"None", "Left", "Right"}
input_UpdateMovement(p, d) ==
    LET p0 == IF d # "None" THEN [p EXCEPT !.dir = d] ELSE p
    IN  IF d = "None"
        THEN LET p1 == set_movement([p0 EXCEPT !.currentState = "Idle"], "None")
             IN  request_step([p1 EXCEPT !.moving = FALSE])
        ELSE IF p0.currentState = "Jumping" /\ ~p0.grounded
        THEN LET p1 == set_movement(p0, d)
             IN  request_step(p1)
        ELSE LET p1 == set_movement([p0 EXCEPT !.currentState = "Walking"], d)
             IN  request_step(p1)

\* PressJump without the test for Jumping
input_PressJump_noguard(p) ==
    advance(jump([p EXCEPT !.currentState = "Jumping"]))

\* PressJump that leaves the step to the next advance() of the frame driver
input_PressJump_noadvance(p) ==
    IF p.currentState # "Jumping"
    THEN jump([p EXCEPT !.currentState = "Jumping"])
    ELSE p

\* Player::input, event PressJump
input_PressJump(p) ==
    IF p.currentState # "Jumping"
    THEN advance(jump([p EXCEPT !.currentState = "Jumping"]))
    ELSE p

\* Landed without the test for grounded
input_Landed_noguard(p) ==
    LET p1 == [p EXCEPT !.velocity.y = 0, !.grounded = TRUE]
        p2 == IF p1.moving
              THEN set_movement([p1 EXCEPT !.currentState = "Walking"], p1.dir)
              ELSE set_movement([p1 EXCEPT !.currentState = "Idle"], "None")
    IN  request_step(p2)

\* Landed that always comes to rest, whatever the movement intent
input_Landed_idle(p) ==
    IF ~p.grounded
    THEN LET p1 == [p EXCEPT !.velocity.y = 0, !.grounded = TRUE]
             p2 == set_movement([p1 EXCEPT !.currentState = "Idle"], "None")
         IN  request_step(p2)
    ELSE p

\* Player::input, event Landed
input_Landed(p) ==
    IF ~p.grounded
    THEN LET p1 == [p EXCEPT !.velocity.y = 0, !.grounded = TRUE]
             p2 == IF p1.moving
                   THEN set_movement([p1 EXCEPT !.currentState = "Walking"], p1.dir)
                   ELSE set_movement([p1 EXCEPT !.currentState = "Idle"], "None")
         IN  request_step(p2)
    ELSE p

\* Player::input
input(p, event) ==
    LET p0 == [p EXCEPT !.last_input = event.type]
    IN  CASE event.type = "UpdateMovement" -> input_UpdateMovement(p0, event.dir)
          [] event.type = "PressJump" -> input_PressJump(p0)
          [] event.type = "TimeUpdate" -> p0
          [] event.type = "Landed" -> input_Landed(p0)

UpdateMovement(d) == [type |-> "UpdateMovement", dir |-> d]
PressJump == [type |-> "PressJump", dir |-> "None"]
Landed == [type |-> "Landed", dir |-> "None"]

\* ---------------------------------------------------------- Coin, Object
\* Coin::new
Coin_new == [pos |-> [x |-> 210 * Scale, y |-> -270 * Scale],
             pickedup |-> FALSE, col_handle |-> NoHandle]

\* Object::new(Vector2::new(1920./2. - 275., -1080./4. + 350.))
Object_new == [pos |-> [x |-> 685 * Scale, y |-> 80 * Scale],
               pickedup |-> FALSE, col_handle |-> NoHandle]

\* set_col_handle of Player, Coin and Object
set_col_handle(a, h) == [a EXCEPT !.col_handle = h]

\* Coin::pickUpCoin
pickUpCoin(c) == [c EXCEPT !.pickedup = TRUE]

\* Object::pickUpObject
pickUpObject(o) == [o EXCEPT !.pickedup = TRUE]

\* ------------------------------------------------------------- GameInput
\* GameInput::held_dirs
held_dirs(gi) == IF gi = << >> THEN "None" ELSE gi[Len(gi)]

\* Vec::retain(|&d| d != direction)
RECURSIVE retain_ne(_, _)
retain_ne(s, d) ==
    IF s = << >> THEN << >>
    ELSE IF Head(s) # d THEN <<Head(s)>> \o retain_ne(Tail(s), d)
    ELSE retain_ne(Tail(s), d)

\* GameInput::key_down_event: the new held list and the event returned
GameInput_key_down_event(gi, keycode) ==
    IF fromKey(keycode) # "None"
    THEN [held |-> Append(gi, fromKey(keycode)),
          event |-> UpdateMovement(fromKey(keycode))]
    ELSE IF keycode = "Space"
    THEN [held |-> gi, event |-> UpdateMovement(held_dirs(gi))]
    ELSE [held |-> gi, event |-> [type |-> "NoEvent", dir |-> "None"]]

\* GameInput::key_up_event
GameInput_key_up_event(gi, keycode) ==
    IF fromKey(keycode) # "None"
    THEN LET h == retain_ne(gi, fromKey(keycode))
         IN  [held |-> h, event |-> UpdateMovement(held_dirs(h))]
    ELSE [held |-> gi, event |-> [type |-> "NoEvent", dir |-> "None"]]

\* ------------------------------------------------------------- main.rs
Keycodes == {"Left", "Right", "Space", "Other"}

\* collision object handles, in the order main() adds the shapes
GroundHandle == 0
PlayerHandle == 1
CoinHandle == 2
VendingHandle == 3
Handles == {GroundHandle, PlayerHandle, CoinHandle, VendingHandle}

\* world_to_screen_coords of main.rs (uses WINDOW_WIDTH / WINDOW_HEIGHT)
world_to_screen_coords(point) ==
    [x |-> point.x + WINDOW_WIDTH \div 2,
     y |-> WINDOW_HEIGHT - (point.y + WINDOW_HEIGHT \div 2)]

\* world_to_screen_coords of player.rs / coin.rs / object.rs, called with
\* the window mode's width 1920 and height 1080
actor_to_screen_coords(point) ==
    [x |-> point.x + (1920 * Scale) \div 2,
     y |-> 1080 * Scale - (point.y + (1080 * Scale) \div 2)]

\* positions of the collision objects as main() registers them
World_init ==
    [h \in Handles |->
        IF h = GroundHandle
        THEN [x |-> world_to_screen_coords([x |-> 0, y |-> -500 * Scale]).x
                    - WINDOW_WIDTH \div 2,
              y |-> world_to_screen_coords([x |-> 0, y |-> -500 * Scale]).y]
        ELSE world_to_screen_coords([x |-> 0, y |-> 0])]

\* Player::update, Coin::update, Object::update: the position written
Player_update(p) == actor_to_screen_coords(p.pos)
Coin_update(c) == actor_to_screen_coords(c.pos)
Object_update(o) ==
    [x |-> actor_to_screen_coords(o.pos).x + 250 * Scale,
     y |-> actor_to_screen_coords(o.pos).y]

\* getColHandle of Player, Coin and Object: self.col_handle.unwrap(), which
\* panics on None
getColHandle(a) == [abort |-> a.col_handle = NoHandle, handle |-> a.col_handle]

\* a position sync that skips an actor without a handle (if let Some(h))
Player_sync_skip(p, w) ==
    IF p.col_handle = NoHandle
    THEN [abort |-> FALSE, world |-> w]
    ELSE [abort |-> FALSE,
          world |-> [w EXCEPT ![p.col_handle] = Player_update(p)]]

\* Player::update on the collision world w: world.set_position(
\* self.col_handle.unwrap(), ..), which panics on None before it writes
Player_sync(p, w) ==
    IF p.col_handle = NoHandle
    THEN [abort |-> TRUE, world |-> w]
    ELSE [abort |-> FALSE,
          world |-> [w EXCEPT ![p.col_handle] = Player_update(p)]]

\* handle_contact_event that scores the coin without asking isPickedUp
handle_contact_event_rescore(p, c, v, w, event) ==
    IF event.kind # "Started"
    THEN [player |-> p, coin |-> c, vending |-> v, s |-> 0, abort |-> FALSE]
    ELSE IF c.col_handle = NoHandle
    THEN [player |-> p, coin |-> c, vending |-> v, s |-> 0, abort |-> TRUE]
    ELSE IF event.c1 = c.col_handle \/ event.c2 = c.col_handle
    THEN [player |-> p, coin |-> pickUpCoin(c), vending |-> v,
          s |-> COIN_SCORE, abort |-> FALSE]
    ELSE IF v.col_handle = NoHandle
    THEN [player |-> p, coin |-> c, vending |-> v, s |-> 0, abort |-> TRUE]
    ELSE IF event.c1 = v.col_handle \/ event.c2 = v.col_handle
    THEN IF ~v.pickedup
         THEN [player |-> p, coin |-> c, vending |-> pickUpObject(v),
               s |-> 0, abort |-> FALSE]
         ELSE [player |-> p, coin |-> c, vending |-> v, s |-> 0, abort |-> FALSE]
    ELSE LET p1 == IF p.grounded = FALSE THEN input(p, Landed) ELSE p
             pos == world_to_screen_coords(w[event.c1])
         IN  [player |-> [p1 EXCEPT !.pos.y = pos.y + FERRIS_HEIGHT + 50 * Scale],
              coin |-> c, vending |-> v, s |-> 0, abort |-> FALSE]

\* handle_contact_event whose snap of pos.y follows the if/else chain
\* instead of sitting in its last branch
handle_contact_event_snap_always(p, c, v, w, event) ==
    IF event.kind # "Started"
    THEN [player |-> p, coin |-> c, vending |-> v, s |-> 0, abort |-> FALSE]
    ELSE IF c.col_handle = NoHandle
    THEN [player |-> p, coin |-> c, vending |-> v, s |-> 0, abort |-> TRUE]
    ELSE LET pos == world_to_screen_coords(w[event.c1])
             snap(q) == [q EXCEPT !.pos.y = pos.y + FERRIS_HEIGHT + 50 * Scale]
         IN  IF event.c1 = c.col_handle \/ event.c2 = c.col_handle
             THEN IF ~c.pickedup
                  THEN [player |-> snap(p), coin |-> pickUpCoin(c), vending |-> v,
                        s |-> COIN_SCORE, abort |-> FALSE]
                  ELSE [player |-> snap(p), coin |-> c, vending |-> v,
                        s |-> 0, abort |-> FALSE]
             ELSE IF v.col_handle = NoHandle
             THEN [player |-> p, coin |-> c, vending |-> v, s |-> 0, abort |-> TRUE]
             ELSE IF event.c1 = v.col_handle \/ event.c2 = v.col_handle
             THEN IF ~v.pickedup
                  THEN [player |-> snap(p), coin |-> c, vending |-> pickUpObject(v),
                        s |-> 0, abort |-> FALSE]
                  ELSE [player |-> snap(p), coin |-> c, vending |-> v,
                        s |-> 0, abort |-> FALSE]
             ELSE LET p1 == IF p.grounded = FALSE THEN input(p, Landed) ELSE p
                  IN  [player |-> snap(p1),
                       coin |-> c, vending |-> v, s |-> 0, abort |-> FALSE]

\* handle_contact_event: event = [kind, c1, c2]; the result carries the
\* three actors, the score delta s and whether an unwrap of None aborted
handle_contact_event(p, c, v, w, event) ==
    IF event.kind # "Started"
    THEN [player |-> p, coin |-> c, vending |-> v, s |-> 0, abort |-> FALSE]
    ELSE IF c.col_handle = NoHandle
    THEN [player |-> p, coin |-> c, vending |-> v, s |-> 0, abort |-> TRUE]
    ELSE IF event.c1 = c.col_handle \/ event.c2 = c.col_handle
    THEN IF ~c.pickedup
         THEN [player |-> p, coin |-> pickUpCoin(c), vending |-> v,
               s |-> COIN_SCORE, abort |-> FALSE]
         ELSE [player |-> p, coin |-> c, vending |-> v, s |-> 0, abort |-> FALSE]
    ELSE IF v.col_handle = NoHandle
    THEN [player |-> p, coin |-> c, vending |-> v, s |-> 0, abort |-> TRUE]
    ELSE IF event.c1 = v.col_handle \/ event.c2 = v.col_handle
    THEN IF ~v.pickedup
         THEN [player |-> p, coin |-> c, vending |-> pickUpObject(v),
               s |-> 0, abort |-> FALSE]
         ELSE [player |-> p, coin |-> c, vending |-> v, s |-> 0, abort |-> FALSE]
    ELSE LET p1 == IF p.grounded = FALSE THEN input(p, Landed) ELSE p
             pos == world_to_screen_coords(w[event.c1])
         IN  [player |-> [p1 EXCEPT !.pos.y = pos.y + FERRIS_HEIGHT + 50 * Scale],
              coin |-> c, vending |-> v, s |-> 0, abort |-> FALSE]

\* boundary clamp that moves and stops the actor but submits no
\* UpdateMovement(None)
boundary_clamp_keepintent(p) ==
    IF p.pos.x > WINDOW_WIDTH \div 2 - 226 * Scale \/ p.pos.x < -(WINDOW_WIDTH \div 2)
    THEN LET x == IF p.pos.x > WINDOW_WIDTH \div 2 - 226 * Scale
                  THEN WINDOW_WIDTH \div 2 - 227 * Scale
                  ELSE -(WINDOW_WIDTH \div 2) + 5 * Scale
         IN  [p EXCEPT !.pos.x = x, !.velocity.x = 0]
    ELSE p

\* MainState::update, head of one pass of the while loop: the boundary clamp
boundary_clamp(p) ==
    IF p.pos.x > WINDOW_WIDTH \div 2 - 226 * Scale \/ p.pos.x < -(WINDOW_WIDTH \div 2)
    THEN LET x == IF p.pos.x > WINDOW_WIDTH \div 2 - 226 * Scale
                  THEN WINDOW_WIDTH \div 2 - 227 * Scale
                  ELSE -(WINDOW_WIDTH \div 2) + 5 * Scale
         IN  input([p EXCEPT !.pos.x = x, !.velocity.x = 0], UpdateMovement("None"))
    ELSE p

\* the contact events the collision world may report
ContactEvents ==
    {e \in [kind : {"Started", "Stopped"}, c1 : Handles, c2 : Handles] :
        e.c1 # e.c2}

\* the contact events between the player's shape and the ground
GroundContacts ==
    {e \in ContactEvents : {e.c1, e.c2} = {GroundHandle, PlayerHandle}}

\* the keys the motion state machine reacts to
MotionKeys == {"Left", "Right", "Space"}

\* the player record at the start of an operation: bookkeeping reset
begin(p) == [p EXCEPT !.steps_run = 0, !.last_input = "None", !.drained = 0]

\* the fields of Player alone
Actor(p) == [begin(p) EXCEPT !.reqs = 0]

\* ------------------------------------------------------------------ Init
\* MainState::new: the state main() holds before it registers the shapes
Init ==
    /\ player = Player_new(TimeScale, "Right")
    /\ coin = Coin_new
    /\ vending = Object_new
    /\ score = 0
    /\ win_bool = FALSE
    /\ gameInput = << >>
    /\ world = World_init
    /\ pc = "setup"
    /\ pending = 0
    /\ ticks = 0
    /\ op = [name |-> "new", arg |-> "None", s |-> 0]

\* main() that forgets the coin's set_col_handle
main_register_nocoin ==
    /\ pc = "setup"
    /\ player' = set_col_handle(player, PlayerHandle)
    /\ vending' = set_col_handle(vending, VendingHandle)
    /\ pc' = "idle"
    /\ op' = [name |-> "main", arg |-> "None", s |-> 0]
    /\ UNCHANGED <<coin, score, win_bool, gameInput, world, pending, ticks>>

\* main(): the three set_col_handle calls, then event::run
main_register ==
    /\ pc = "setup"
    /\ player' = set_col_handle(player, PlayerHandle)
    /\ coin' = set_col_handle(coin, CoinHandle)
    /\ vending' = set_col_handle(vending, VendingHandle)
    /\ pc' = "idle"
    /\ op' = [name |-> "main", arg |-> "None", s |-> 0]
    /\ UNCHANGED <<score, win_bool, gameInput, world, pending, ticks>>

\* MainState::key_down_event
key_down_event(keycode) ==
    /\ pc = "idle"
    /\ LET r == GameInput_key_down_event(gameInput, keycode)
           p == begin(player)
       IN  /\ gameInput' = r.held
           /\ player' =
                IF r.event.type = "NoEvent" THEN p
                ELSE IF keycode = "Right" THEN input(p, UpdateMovement("Right"))
                ELSE IF keycode = "Left" THEN input(p, UpdateMovement("Left"))
                ELSE IF keycode = "Space" THEN input(p, PressJump)
                ELSE p
    /\ op' = [name |-> "key_down", arg |-> keycode, s |-> 0]
    /\ UNCHANGED <<coin, vending, score, win_bool, world, pc, pending, ticks>>

\* MainState::key_up_event
key_up_event(keycode) ==
    /\ pc = "idle"
    /\ LET r == GameInput_key_up_event(gameInput, keycode)
           p == begin(player)
       IN  /\ gameInput' = r.held
           /\ player' =
                IF r.event.type = "NoEvent" THEN p
                ELSE IF keycode \in {"Right", "Left"}
                THEN input(p, UpdateMovement("None"))
                ELSE p
    /\ op' = [name |-> "key_up", arg |-> keycode, s |-> 0]
    /\ UNCHANGED <<coin, vending, score, win_bool, world, pc, pending, ticks>>

\* a pass of the loop that syncs the positions before it calls advance()
tick_sync_first(n) ==
    /\ pc = "idle"
    /\ LET p0 == boundary_clamp(begin(player))
           p == advance(p0)
       IN  IF p.col_handle = NoHandle \/ vending.col_handle = NoHandle
              \/ (~coin.pickedup /\ coin.col_handle = NoHandle)
           THEN /\ pc' = "aborted"
                /\ player' = p
                /\ UNCHANGED <<world, pending>>
           ELSE /\ player' = p
                /\ world' = [h \in Handles |->
                      IF h = p.col_handle THEN Player_update(p0)
                      ELSE IF h = coin.col_handle /\ ~coin.pickedup
                      THEN Coin_update(coin)
                      ELSE IF h = vending.col_handle THEN Object_update(vending)
                      ELSE world[h]]
                /\ pending' = n
                /\ pc' = IF n > 0 THEN "contacts" ELSE "idle"
    /\ ticks' = ticks + 1
    /\ op' = [name |-> "tick", arg |-> "None", s |-> 0]
    /\ UNCHANGED <<coin, vending, score, win_bool, gameInput>>

\* MainState::update, one pass of the while loop up to world.update():
\* clamp, advance, position sync of the three actors, then the collision
\* world reports n contact events
tick(n) ==
    /\ pc = "idle"
    /\ LET p == advance(boundary_clamp(begin(player)))
           sync == Player_sync(p, world)
       IN  IF sync.abort \/ vending.col_handle = NoHandle
              \/ (~coin.pickedup /\ coin.col_handle = NoHandle)
           THEN /\ pc' = "aborted"
                /\ player' = p
                /\ UNCHANGED <<world, pending>>
           ELSE /\ player' = p
                /\ world' = [h \in Handles |->
                      IF h = p.col_handle THEN sync.world[h]
                      ELSE IF h = coin.col_handle /\ ~coin.pickedup
                      THEN Coin_update(coin)
                      ELSE IF h = vending.col_handle THEN Object_update(vending)
                      ELSE world[h]]
                /\ pending' = n
                /\ pc' = IF n > 0 THEN "contacts" ELSE "idle"
    /\ ticks' = ticks + 1
    /\ op' = [name |-> "tick", arg |-> "None", s |-> 0]
    /\ UNCHANGED <<coin, vending, score, win_bool, gameInput>>

\* MainState::update, one pass of the for loop over world.contact_events()
contact(event) ==
    /\ pc = "contacts"
    /\ pending > 0
    /\ LET r == handle_contact_event(begin(player), coin, vending, world, event)
       IN  /\ player' = r.player
           /\ coin' = r.coin
           /\ vending' = r.vending
           /\ score' = score + r.s
           /\ op' = [name |-> "contact", arg |-> event, s |-> r.s]
           /\ win_bool' = IF r.vending.pickedup THEN TRUE ELSE win_bool
           /\ pc' = IF r.abort THEN "aborted"
                    ELSE IF pending = 1 THEN "idle" ELSE "contacts"
    /\ pending' = pending - 1
    /\ UNCHANGED <<gameInput, world, ticks>>

\* the list of held directions stays within bound after key down keycode
\* (the keyboard repeats a held key, so the Vec can grow without limit)
HeldWithin(keycode, bound) ==
    Len(GameInput_key_down_event(gameInput, keycode).held) <= bound

Next ==
    \/ main_register
    \/ \E k \in MotionKeys : HeldWithin(k, MaxHeld) /\ key_down_event(k)
    \/ \E k \in MotionKeys : key_up_event(k)
    \/ \E n \in 0..MaxContacts : ticks < MaxTicks /\ tick(n)
    \/ \E e \in GroundContacts : contact(e)

Spec == Init /\ [][Next]_vars

\* The frame driver with every contact event the collision world can
\* report (coin and vending machine included), with the Right and jump keys.
PickupKeys == {"Right", "Space"}

NextPickup ==
    \/ main_register
    \/ \E k \in PickupKeys : HeldWithin(k, MaxHeld) /\ key_down_event(k)
    \/ \E k \in PickupKeys : key_up_event(k)
    \/ \E n \in 0..MaxContacts : ticks < MaxTicks /\ tick(n)
    \/ \E e \in ContactEvents : contact(e)

SpecPickup == Init /\ [][NextPickup]_vars

\* The frame driver over more ticks, with the direction keys alone and a
\* collision world that reports the start of a ground contact, ground
\* first, or nothing: the actor lands and runs.
RunKeys == {"Left", "Right"}

RunContacts ==
    {e \in GroundContacts : e.kind = "Started" /\ e.c1 = GroundHandle}

NextRun ==
    \/ main_register
    \/ \E k \in RunKeys : HeldWithin(k, MaxHeld) /\ key_down_event(k)
    \/ \E k \in RunKeys : key_up_event(k)
    \/ \E n \in 0..MaxContacts : ticks < RunTicks /\ tick(n)
    \/ \E e \in RunContacts : contact(e)

SpecRun == Init /\ [][NextRun]_vars

\* main() with its setup sequence not enforced: the three set_col_handle
\* calls and the start of event::run in any order, so that the frame driver
\* can run on actors as Player::new, Coin::new and Object::new leave them
\* (col_handle None).  This is the initialization-order error of the
\* missing-handle fault; main() itself always registers first.
main_set_col_handle(who) ==
    /\ pc = "setup"
    /\ \/ /\ who = "player"
          /\ player.col_handle = NoHandle
          /\ player' = set_col_handle(player, PlayerHandle)
          /\ UNCHANGED <<coin, vending>>
       \/ /\ who = "coin"
          /\ coin.col_handle = NoHandle
          /\ coin' = set_col_handle(coin, CoinHandle)
          /\ UNCHANGED <<player, vending>>
       \/ /\ who = "vending"
          /\ vending.col_handle = NoHandle
          /\ vending' = set_col_handle(vending, VendingHandle)
          /\ UNCHANGED <<player, coin>>
    /\ op' = [name |-> "set_col_handle", arg |-> who, s |-> 0]
    /\ UNCHANGED <<score, win_bool, gameInput, world, pc, pending, ticks>>

\* event::run(ctx, &mut state): the frame driver starts
main_event_run ==
    /\ pc = "setup"
    /\ pc' = "idle"
    /\ op' = [name |-> "run", arg |-> "None", s |-> 0]
    /\ UNCHANGED <<player, coin, vending, score, win_bool, gameInput, world,
                   pending, ticks>>

SetupKeys == {"Right"}

NextSetup ==
    \/ \E who \in {"player", "coin", "vending"} : main_set_col_handle(who)
    \/ main_event_run
    \/ \E k \in SetupKeys : HeldWithin(k, MaxHeld) /\ key_down_event(k)
    \/ \E k \in SetupKeys : key_up_event(k)
    \/ \E n \in 0..MaxContacts : ticks < MaxTicks /\ tick(n)
    \/ \E e \in GroundContacts : contact(e)

SpecSetup == Init /\ [][NextSetup]_vars

\* The frame driver with the two direction keys and up to KeysHeld entries
\* in the list of held directions, so that one direction key can be
\* released while the other is still down.
KeysHeld == 2

NextKeys ==
    \/ main_register
    \/ \E k \in RunKeys : HeldWithin(k, KeysHeld) /\ key_down_event(k)
    \/ \E k \in RunKeys : key_up_event(k)
    \/ \E n \in 0..MaxContacts : ticks < MaxTicks /\ tick(n)
    \/ \E e \in RunContacts : contact(e)

SpecKeys == Init /\ [][NextKeys]_vars

\* ============================================================== properties

\* number of pending requests for the player in a step queue
NumPlayerRequests(q) == Cardinality({i \in 1..Len(q) : q[i] = "Player"})

\* C1: the step queue never holds more than one pending request for the
\* player, and however many requests were made before a pop (drained), the
\* operation that pops dispatches step() once if there was any request and
\* not at all otherwise; after the advance() of a tick nothing is pending,
\* so a later advance() without a new request dispatches nothing.
C1_Dedup ==
    /\ NumPlayerRequests(player.step_queue) <= 1
    /\ (player.reqs > 0) = (player.step_queue # << >>)
    /\ player.steps_run = (IF player.drained >= 1 THEN 1 ELSE 0)
    /\ (op.name = "tick" /\ pc # "aborted") => player.step_queue = << >>

\* two requests were coalesced into the one step() the tick dispatched
C1_Witness ==
    /\ op.name = "tick"
    /\ player.drained >= 2
    /\ player.steps_run = 1
    /\ player.step_queue = << >>

\* C2: input(PressJump) on an actor that is already Jumping changes no field
\* of the actor (velocity, position, jump_time, state_start_time, grounded,
\* motion state, step queue) and runs no step().
C2_JumpWhileJumping ==
    [][(/\ op'.name = "key_down"
        /\ op'.arg = "Space"
        /\ player.currentState = "Jumping")
       => (/\ player'.velocity = player.velocity
           /\ player'.pos = player.pos
           /\ player'.jump_time = player.jump_time
           /\ player'.state_start_time = player.state_start_time
           /\ player'.grounded = player.grounded
           /\ player'.currentState = player.currentState
           /\ player'.step_queue = player.step_queue
           /\ player'.steps_run = 0)]_vars

\* PressJump was delivered to an airborne, Jumping actor with a step
\* request pending, and no step ran
C2_Witness ==
    /\ op.name = "key_down"
    /\ op.arg = "Space"
    /\ player.last_input = "PressJump"
    /\ player.currentState = "Jumping"
    /\ player.step_queue # << >>
    /\ player.steps_run = 0

\* C3: a Landed event changes the actor when it is delivered to an airborne
\* actor, and delivered again to the actor it grounded (or to any grounded
\* actor) it changes no field.
C3_LandedIdempotent ==
    /\ [](player.grounded => Actor(input(player, Landed)) = Actor(player)
                             /\ input(player, Landed).step_queue = player.step_queue)
    /\ [][player'.last_input = "Landed" => Actor(player') # Actor(player)]_vars

\* Landed has just been delivered and grounded the actor
C3_Witness ==
    /\ op.name = "contact"
    /\ player.last_input = "Landed"
    /\ player.grounded

\* C4: after an operation that ran step(), an actor that is not Jumping has
\* velocity.y = 0.
C4_GroundedNoVy ==
    (player.steps_run >= 1 /\ player.currentState # "Jumping")
        => player.velocity.y = 0

\* step() ran on a walking actor
C4_Witness ==
    /\ player.steps_run = 1
    /\ player.currentState = "Walking"
    /\ player.velocity.x # 0
    /\ player.velocity.y = 0

\* C5: whenever an operation has returned, |velocity.x| <= MAX_MOVE_SPEED.
C5_HorizontalClamp ==
    Abs(player.velocity.x) <= MAX_MOVE_SPEED

\* step() ran and left the actor at the speed limit
C5_Witness ==
    /\ player.steps_run = 1
    /\ Abs(player.velocity.x) = MAX_MOVE_SPEED

\* C6 as stated: PressJump on a grounded Idle or Walking actor returns with
\* motion state Jumping, grounded false and velocity.y = JUMP_SPEED.
C6_Original ==
    [][(/\ op'.name = "key_down"
        /\ op'.arg = "Space"
        /\ player.currentState \in {"Idle", "Walking"}
        /\ player.grounded)
       => (/\ player'.currentState = "Jumping"
           /\ ~player'.grounded
           /\ player'.velocity.y = JUMP_SPEED)]_vars

\* C6 amended: PressJump on a grounded Idle or Walking actor returns with
\* motion state Jumping, grounded false and velocity.y = JUMP_SPEED -
\* FALL_ACCEL: jump() sets JUMP_SPEED and the step() that the same input
\* call forces applies one tick of gravity and moves the actor by that speed.
C6_JumpLaunch ==
    [][(/\ op'.name = "key_down"
        /\ op'.arg = "Space"
        /\ player.currentState \in {"Idle", "Walking"}
        /\ player.grounded)
       => (/\ player'.currentState = "Jumping"
           /\ ~player'.grounded
           /\ player'.steps_run = 1
           /\ player'.velocity.y = JUMP_SPEED - FALL_ACCEL
           /\ player'.pos.y = player.pos.y + JUMP_SPEED - FALL_ACCEL)]_vars

\* PressJump has launched a grounded actor
C6_Witness ==
    /\ op.name = "key_down"
    /\ op.arg = "Space"
    /\ player.last_input = "PressJump"
    /\ player.steps_run = 1
    /\ player.currentState = "Jumping"
    /\ ~player.grounded
    /\ player.velocity.y = JUMP_SPEED - FALL_ACCEL

\* C7: a grounded actor at rest receives UpdateMovement(Some(Right)) (key
\* down Right); the step() of the next tick leaves it Walking with
\* velocity.x = MOVE_ACCEL.
C7_WalkRightFromRest ==
    [][(/\ op.name = "key_down"
        /\ op.arg = "Right"
        /\ player.grounded
        /\ player.velocity.x = 0
        /\ op'.name = "tick")
       => (/\ player'.steps_run = 1
           /\ player'.currentState = "Walking"
           /\ player'.velocity.x = MOVE_ACCEL
           /\ player'.pos.x = player.pos.x + MOVE_ACCEL)]_vars

\* the tick after key down Right has stepped a resting actor once
C7_Witness ==
    /\ op.name = "tick"
    /\ player.steps_run = 1
    /\ player.grounded
    /\ player.currentState = "Walking"
    /\ player.dir = "Right"
    /\ player.velocity.x = MOVE_ACCEL

\* C8: one step() on an airborne, Jumping actor with velocity.y = 0 sets
\* velocity.y to -FALL_ACCEL and leaves it airborne and Jumping.
C8_BeginFalling ==
    [][(/\ player.currentState = "Jumping"
        /\ ~player.grounded
        /\ player.velocity.y = 0
        /\ player'.steps_run = 1)
       => (/\ player'.velocity.y = -FALL_ACCEL
           /\ ~player'.grounded
           /\ player'.currentState = "Jumping")]_vars

\* the spawned actor has taken its first step
C8_Witness ==
    /\ op.name = "tick"
    /\ player.steps_run = 1
    /\ player.velocity.y = -FALL_ACCEL
    /\ ~player.grounded
    /\ player.currentState = "Jumping"

\* the contact events that name the coin's shape
InvolvesCoin(e) == CoinHandle \in {e.c1, e.c2}

\* C9: the contact-started event between the actor and the coin not yet
\* collected sets the coin's flag and returns 1337; a contact event that
\* involves the coin once it is collected returns 0 and changes neither
\* actor, coin, vending machine, score nor win flag; the score is 1337
\* when the coin is collected and 0 before.
C9_CoinOnce ==
    /\ [](score = (IF coin.pickedup THEN COIN_SCORE ELSE 0))
    /\ [][op'.name = "contact" =>
            /\ (/\ op'.arg.kind = "Started"
                /\ {op'.arg.c1, op'.arg.c2} = {PlayerHandle, CoinHandle}
                /\ ~coin.pickedup)
               => (/\ coin'.pickedup
                   /\ op'.s = COIN_SCORE
                   /\ score' = score + COIN_SCORE)
            /\ (InvolvesCoin(op'.arg) /\ coin.pickedup)
               => (/\ op'.s = 0
                   /\ score' = score
                   /\ coin' = coin
                   /\ vending' = vending
                   /\ win_bool' = win_bool
                   /\ Actor(player') = Actor(player)
                   /\ player'.step_queue = player.step_queue)]_vars

\* a second contact-started event between actor and coin returned 0
C9_Witness ==
    /\ op.name = "contact"
    /\ op.arg.kind = "Started"
    /\ {op.arg.c1, op.arg.c2} = {PlayerHandle, CoinHandle}
    /\ op.s = 0
    /\ coin.pickedup
    /\ score = COIN_SCORE

\* C10: Landed delivered to an airborne actor sets velocity.y to 0 and
\* grounded to true, and the motion state to Walking if movement intent is
\* held at that moment and to Idle otherwise.
C10_Landed ==
    [][(player'.last_input = "Landed" /\ ~player.grounded)
       => (/\ player'.velocity.y = 0
           /\ player'.grounded
           /\ player'.currentState = (IF player.moving THEN "Walking" ELSE "Idle")
           /\ player'.moving = player.moving)]_vars

\* an actor holding movement intent has landed and walks
C10_Witness ==
    /\ op.name = "contact"
    /\ player.last_input = "Landed"
    /\ player.grounded
    /\ player.moving
    /\ player.currentState = "Walking"
    /\ player.velocity.y = 0

\* C11 as stated: input(UpdateMovement(None)) (the release of a direction
\* key) leaves the motion state Idle and movement intent cleared, whether
\* the actor is grounded or airborne.
C11_Original ==
    [][(op'.name = "key_up" /\ player'.last_input = "UpdateMovement")
       => (player'.currentState = "Idle" /\ ~player'.moving)]_vars

\* C11 amended: input(UpdateMovement(None)) clears movement intent from
\* every reachable state; it leaves the motion state Idle when the actor is
\* grounded and Jumping when it is airborne (set_movement puts an airborne
\* actor back to Jumping).  Facing, position, velocity and grounded are
\* left alone.
C11_StopMoving ==
    /\ [](LET q == input(player, UpdateMovement("None"))
          IN  /\ ~q.moving
              /\ q.currentState = (IF player.grounded THEN "Idle" ELSE "Jumping")
              /\ q.grounded = player.grounded)
    /\ [][(op'.name = "key_up" /\ player'.last_input = "UpdateMovement")
          => (/\ ~player'.moving
              /\ player'.currentState =
                    (IF player.grounded THEN "Idle" ELSE "Jumping")
              /\ player'.dir = player.dir
              /\ player'.pos = player.pos
              /\ player'.velocity = player.velocity
              /\ player'.grounded = player.grounded)]_vars

\* a direction key was released under a grounded actor in motion: it is
\* Idle with no movement intent
C11_Witness ==
    /\ op.name = "key_up"
    /\ player.last_input = "UpdateMovement"
    /\ player.grounded
    /\ player.velocity.x # 0
    /\ player.currentState = "Idle"
    /\ ~player.moving

\* C12: input(UpdateMovement(Some(d))) on an actor that is Jumping and not
\* grounded sets facing to d and movement intent to held and leaves the
\* motion state Jumping and position, velocity, grounded and the jump timer
\* unchanged; on any other actor it sets the motion state to Walking,
\* facing to d and movement intent to held.
C12_UpdateMovementSome ==
    /\ [](\A d \in {"Left", "Right"} :
            LET q == input(player, UpdateMovement(d))
            IN  /\ q.dir = d
                /\ q.moving
                /\ q.pos = player.pos
                /\ q.velocity = player.velocity
                /\ IF player.currentState = "Jumping" /\ ~player.grounded
                   THEN /\ q.currentState = "Jumping"
                        /\ ~q.grounded
                        /\ q.jump_time = player.jump_time
                   ELSE q.currentState = "Walking")
    /\ [][(op'.name = "key_down" /\ op'.arg \in {"Left", "Right"})
          => (/\ player'.dir = op'.arg
              /\ player'.moving
              /\ player'.pos = player.pos
              /\ player'.velocity = player.velocity
              /\ player'.steps_run = 0
              /\ player'.currentState =
                    (IF player.currentState = "Jumping" /\ ~player.grounded
                     THEN "Jumping" ELSE "Walking"))]_vars

\* a direction key was pressed in mid-air: the falling actor faces Left and
\* holds movement intent, still Jumping
C12_Witness ==
    /\ op.name = "key_down"
    /\ op.arg = "Left"
    /\ player.last_input = "UpdateMovement"
    /\ player.currentState = "Jumping"
    /\ ~player.grounded
    /\ player.velocity.y < 0
    /\ player.dir = "Left"
    /\ player.moving

\* a direction key was pressed under a grounded actor: it walks
C12_WitnessWalking ==
    /\ op.name = "key_down"
    /\ op.arg = "Left"
    /\ player.last_input = "UpdateMovement"
    /\ player.grounded
    /\ player.currentState = "Walking"
    /\ player.dir = "Left"
    /\ player.moving

\* C13: within a tick advance() (with its step()) comes first, then the
\* position sync, then the collision world's update, then the handling of
\* the contact events: the position the collision world holds after the
\* tick is that of the actor after advance(), the contact handling reads
\* that world and starts only after the tick's advance() and sync, and no
\* advance() of a next tick (nor a key event) happens while contact events
\* of a tick are still to be handled.
C13_TickOrder ==
    /\ []((op.name = "tick" /\ pc # "aborted")
            => world[PlayerHandle] = Player_update(player))
    /\ [][op'.name = "tick" => (pc = "idle" /\ pending = 0)]_vars
    /\ [][op'.name = "contact"
            => (/\ op.name \in {"tick", "contact"}
                /\ pending > 0
                /\ world' = world)]_vars
    /\ [][(pc = "contacts" /\ pending > 0) => op'.name = "contact"]_vars

\* the second tick has stepped an actor that the first tick's contact
\* event grounded, and has contact events of its own to handle
C13_Witness ==
    /\ op.name = "tick"
    /\ ticks = 2
    /\ player.grounded
    /\ player.steps_run = 1
    /\ player.velocity.x # 0
    /\ pc = "contacts"
    /\ world[PlayerHandle] = Player_update(player)

\* C14: every tick of the frame driver (one advance() call) executes
\* exactly one step() of the actor, also when no input or contact event
\* requested a step since the previous advance().
C14_EveryTickSteps ==
    (op.name = "tick" /\ pc # "aborted") => player.steps_run = 1

\* the actor as the events submitted during a contact resolution alone
\* leave it: Landed through input() if it was delivered, nothing otherwise
ByContactEvents(p, delivered) ==
    IF delivered = "Landed" THEN input(begin(p), Landed) ELSE begin(p)

\* the actor as the events submitted during a tick and its advance() alone
\* leave it
ByTickEvents(p, delivered) ==
    advance(IF delivered = "UpdateMovement"
            THEN input(begin(p), UpdateMovement("None")) ELSE begin(p))

\* the test at the head of the frame driver's loop
OutOfBounds(p) ==
    p.pos.x > WINDOW_WIDTH \div 2 - 226 * Scale \/ p.pos.x < -(WINDOW_WIDTH \div 2)

\* the ground case of the contact handler
GroundCase(e) ==
    e.kind = "Started" /\ CoinHandle \notin {e.c1, e.c2}
                       /\ VendingHandle \notin {e.c1, e.c2}

\* C15 as stated: contact resolution and the frame driver change the
\* actor's position and velocity only by submitting an event through
\* input() or by calling advance().
C15_Original ==
    [][/\ op'.name = "contact"
          => (/\ player'.pos = ByContactEvents(player, player'.last_input).pos
              /\ player'.velocity =
                    ByContactEvents(player, player'.last_input).velocity)
       /\ op'.name = "tick"
          => (/\ player'.pos = ByTickEvents(player, player'.last_input).pos
              /\ player'.velocity =
                    ByTickEvents(player, player'.last_input).velocity)]_vars

\* C15 amended: apart from input() and advance(), position and velocity are
\* written directly in two places.  The ground case of the contact handler
\* sets position.y to the snap value (and nothing else: position.x and
\* velocity are as the delivered events leave them, and no other contact
\* event writes position.y).  The boundary clamp at the head of a tick sets
\* position.x to the clamp value and velocity.x to 0 when position.x is out
\* of bounds (and only then: otherwise the tick leaves position and
\* velocity as advance() alone does; in either case position.y and
\* velocity.y are as the events and advance() leave them).
C15_DirectWrites ==
    [][/\ op'.name = "contact"
          => (/\ player'.pos.x = ByContactEvents(player, player'.last_input).pos.x
              /\ player'.velocity =
                    ByContactEvents(player, player'.last_input).velocity
              /\ IF GroundCase(op'.arg)
                 THEN player'.pos.y =
                        world_to_screen_coords(world[op'.arg.c1]).y
                        + FERRIS_HEIGHT + 50 * Scale
                 ELSE player'.pos.y = player.pos.y)
       /\ op'.name = "tick"
          => (/\ player'.pos.y = ByTickEvents(player, player'.last_input).pos.y
              /\ player'.velocity.y =
                    ByTickEvents(player, player'.last_input).velocity.y
              /\ IF OutOfBounds(player)
                 THEN /\ player'.last_input = "UpdateMovement"
                      /\ player'.velocity.x = 0
                      /\ player'.pos.x \in {WINDOW_WIDTH \div 2 - 227 * Scale,
                                            -(WINDOW_WIDTH \div 2) + 5 * Scale}
                 ELSE /\ player'.pos.x = advance(begin(player)).pos.x
                      /\ player'.velocity.x =
                            advance(begin(player)).velocity.x)]_vars

\* a ground contact has put the landing actor on the surface: position.y is
\* no longer where Landed and the falling steps left it
C15_Witness ==
    /\ op.name = "contact"
    /\ GroundCase(op.arg)
    /\ player.last_input = "Landed"
    /\ player.pos.y = world_to_screen_coords(world[op.arg.c1]).y
                      + FERRIS_HEIGHT + 50 * Scale
    /\ player.pos.y # world_to_screen_coords(world[PlayerHandle]).y

\* C16: a position sync (Player::update) or a handle query (getColHandle)
\* on an actor whose collision handle is not registered aborts: the tick
\* that reaches the sync ends aborted with the collision world untouched,
\* contact events are never handled in it, and nothing runs afterwards.
C16_MissingHandleAborts ==
    /\ [](player.col_handle = NoHandle
            => (/\ Player_sync(player, world).abort
                /\ Player_sync(player, world).world = world
                /\ getColHandle(player).abort))
    /\ [][(op'.name = "tick" /\ player.col_handle = NoHandle)
            => (pc' = "aborted" /\ world' = world /\ pending' = pending)]_vars
    /\ [][pc = "aborted" => FALSE]_vars

\* the frame driver ran a tick on a player without a handle (coin and
\* vending machine registered) and aborted at the sync, after advance()
C16_Witness ==
    /\ op.name = "tick"
    /\ pc = "aborted"
    /\ player.col_handle = NoHandle
    /\ coin.col_handle = CoinHandle
    /\ vending.col_handle = VendingHandle
    /\ player.steps_run = 1
    /\ world = World_init

\* C17: in the ground case of a contact-started event the actor's
\* position.y is set from the reported position of the collider of the
\* pair that is not the actor's, plus the fixed offset, whichever of the
\* two colliders the event lists first.
C17_SnapToOther ==
    [][(op'.name = "contact" /\ GroundCase(op'.arg))
       => LET other == IF op'.arg.c1 = PlayerHandle
                       THEN op'.arg.c2 ELSE op'.arg.c1
          IN  player'.pos.y = world_to_screen_coords(world[other]).y
                              + FERRIS_HEIGHT + 50 * Scale]_vars

\* C18: the collected flag of the coin or of the vending machine becomes
\* true, and a score delta is returned, only in the handling of a
\* contact-started event whose pair of shapes includes the actor's shape.
C18_CollectedOnlyByActor ==
    [][((coin'.pickedup /\ ~coin.pickedup)
          \/ (vending'.pickedup /\ ~vending.pickedup)
          \/ op'.s # 0 \/ score' # score)
       => (/\ op'.name = "contact"
           /\ op'.arg.kind = "Started"
           /\ PlayerHandle \in {op'.arg.c1, op'.arg.c2})]_vars

\* C19: when a direction key that was down is released, the movement
\* intent delivered to the actor is the most recently pressed direction
\* that is still held (the actor holds intent and faces it), and it is
\* none only when no direction key remains held.
C19_MostRecentHeldWins ==
    [][(/\ op'.name = "key_up"
        /\ op'.arg \in {"Left", "Right"}
        /\ \E i \in 1..Len(gameInput) : gameInput[i] = op'.arg)
       => IF gameInput' # << >>
          THEN player'.moving /\ player'.dir = held_dirs(gameInput')
          ELSE ~player'.moving]_vars

\* the horizontal speeds within the clamp, in sixths of a unit
Speeds == -MAX_MOVE_SPEED..MAX_MOVE_SPEED

\* the jump duration jump() records (jump_time - time) for the actor of
\* the current state, were it grounded with horizontal velocity v
RecordedDuration(v) ==
    LET q == jump([player EXCEPT !.grounded = TRUE, !.velocity.x = v])
    IN  q.jump_time - q.time

\* a launch: PressJump has just run jump() and its forced step()
Launched ==
    op.name = "key_down" /\ player.last_input = "PressJump"
                         /\ player.steps_run = 1

\* C20: the jump duration jump() records is non-decreasing in the absolute
\* horizontal speed.  In every reachable state, with a the actor's
\* velocity.x: the duration for a is that for |a|, at least that of a
\* standing jump and at most that at MAX_MOVE_SPEED.  After every launch,
\* with b any speed within the clamp: |a| <= |b| gives duration(a) <=
\* duration(b) and |b| <= |a| gives duration(b) <= duration(a), the
\* duration depends on |b| only and does not decrease from one speed to
\* the next.  The jump_time a launch records is time +
\* jump_duration(|velocity.x|).
C20_JumpDurationMonotone ==
    /\ [](LET a == player.velocity.x
          IN  /\ RecordedDuration(a) = RecordedDuration(Abs(a))
              /\ RecordedDuration(0) <= RecordedDuration(a)
              /\ RecordedDuration(a) <= RecordedDuration(MAX_MOVE_SPEED))
    /\ [](Launched =>
            \A b \in Speeds :
              LET a == player.velocity.x
              IN  /\ Abs(a) <= Abs(b)
                       => RecordedDuration(a) <= RecordedDuration(b)
                  /\ Abs(b) <= Abs(a)
                       => RecordedDuration(b) <= RecordedDuration(a)
                  /\ RecordedDuration(-b) = RecordedDuration(b)
                  /\ (0 <= b /\ b < MAX_MOVE_SPEED)
                       => RecordedDuration(b) <= RecordedDuration(b + 1))
    /\ [][(op'.name = "key_down" /\ player'.last_input = "PressJump"
             /\ player'.steps_run = 1)
            => (player'.jump_time
                  = player.time + jump_duration(Abs(player.velocity.x)))]_vars

\* a jump was launched from a walk to the left: the recorded duration is
\* longer than that of a standing jump
C20_Witness ==
    /\ op.name = "key_down"
    /\ player.last_input = "PressJump"
    /\ player.steps_run = 1
    /\ player.velocity.x < 0
    /\ player.jump_time - player.time = RecordedDuration(player.velocity.x)
    /\ player.jump_time - player.time > RecordedDuration(0)

\* C21: input(PressJump) on an actor that is not Jumping runs exactly one
\* step() inside the input call, whether or not a step request was already
\* pending: the position is integrated once before input returns, the step
\* queue is empty afterwards, and an advance() that follows without a new
\* request runs no step.
C21_JumpStepsOnce ==
    [][(/\ op'.name = "key_down"
        /\ op'.arg = "Space"
        /\ player.currentState # "Jumping")
       => (/\ player'.steps_run = 1
           /\ player'.drained >= 1
           /\ player'.step_queue = << >>
           /\ player'.pos.y = player.pos.y + player'.velocity.y
           /\ player'.velocity.y = JUMP_SPEED - FALL_ACCEL
           /\ Abs(player'.pos.x - player.pos.x)
                 <= Abs(player.velocity.x) + STOP_ACCEL
           /\ advance(begin(player')).steps_run = 0
           /\ advance(begin(player')).pos = player'.pos)]_vars

\* PressJump found a step request already pending (from the key down Left
\* before it) and ran one step for both
C21_Witness ==
    /\ op.name = "key_down"
    /\ op.arg = "Space"
    /\ player.last_input = "PressJump"
    /\ player.drained >= 2
    /\ player.steps_run = 1
    /\ player.step_queue = << >>
    /\ player.velocity.x # 0

\* an operation that ran step() on the actor as the previous state shows
\* it: a tick without boundary clamp, or the step forced by PressJump
SteppedAsIs ==
    /\ player'.steps_run = 1
    /\ op'.name = "tick" => ~OutOfBounds(player)

\* the change of velocity.x in the step just run, before the clamp:
\* step() integrates position.x with the unclamped velocity
UnclampedVx == player'.pos.x - player.pos.x

\* C22: for both directions d, when movement intent is held with facing d
\* and velocity.x is zero or points toward d, one step() changes velocity.x
\* by exactly MOVE_ACCEL toward d (before the clamp), grounded or airborne.
C22_AccelTowardIntent ==
    [][(/\ SteppedAsIs
        /\ player.moving
        /\ player.velocity.x * movement(player.dir) >= 0)
       => UnclampedVx = player.velocity.x
                        + movement(player.dir) * MOVE_ACCEL]_vars

\* C23: when movement intent is held in the direction opposite to a
\* non-zero velocity.x, a step() never carries velocity.x past zero to the
\* other sign: the actor reaches velocity.x = 0 before it moves in the
\* pressed direction.
C23_NoCrossover ==
    [][(/\ SteppedAsIs
        /\ player.moving
        /\ player.velocity.x * movement(player.dir) < 0)
       => (/\ player'.velocity.x * player.velocity.x >= 0
           /\ UnclampedVx * player.velocity.x >= 0)]_vars

\* C24: for a grounded actor without movement intent each step() reduces
\* |velocity.x| by STOP_ACCEL, or sets velocity.x to 0 when |velocity.x| <=
\* STOP_ACCEL; velocity.x never changes sign; and repeated steps reach
\* velocity.x = 0 (two steps suffice within the clamp) and keep it there.
C24_StopOnGround ==
    /\ [][(/\ SteppedAsIs
           /\ player.grounded
           /\ ~player.moving)
          => (/\ player'.velocity.x =
                    (IF Abs(player.velocity.x) > STOP_ACCEL
                     THEN player.velocity.x
                          - signum_math(player.velocity.x) * STOP_ACCEL
                     ELSE 0)
              /\ UnclampedVx = player'.velocity.x
              /\ player'.velocity.x * player.velocity.x >= 0
              /\ player'.grounded /\ ~player'.moving)]_vars
    /\ []((player.grounded /\ ~player.moving)
            => LET s1 == step(begin(player))
                   s2 == step(s1)
                   s3 == step(s2)
               IN  /\ Abs(s1.velocity.x) <= Max(Abs(player.velocity.x) - STOP_ACCEL, 0)
                   /\ s2.velocity.x = 0
                   /\ s3.velocity.x = 0
                   /\ s3.pos = s2.pos)

\* a step has slowed a grounded actor without intent from above STOP_ACCEL:
\* it still moves, in the same direction
C24_Witness ==
    /\ op.name = "tick"
    /\ player.steps_run = 1
    /\ player.grounded
    /\ ~player.moving
    /\ player.velocity.x > 0

\* C25: every step() on an airborne actor sets velocity.y to
\* max(velocity.y - FALL_ACCEL, -MAX_FALL_SPEED) and leaves it airborne:
\* velocity.y strictly decreases step by step until it equals
\* -MAX_FALL_SPEED, then stays there, and is never below -MAX_FALL_SPEED
\* after a step.
C25_FallClamp ==
    /\ [][(player'.steps_run = 1 /\ ~player.grounded /\ op'.name = "tick")
          => (/\ player'.velocity.y =
                    Max(player.velocity.y - FALL_ACCEL, -MAX_FALL_SPEED)
              /\ player.velocity.y > -MAX_FALL_SPEED
                    => player'.velocity.y < player.velocity.y
              /\ ~player'.grounded)]_vars
    /\ [](~player.grounded
            => LET s1 == step(begin(player))
               IN  /\ s1.velocity.y =
                        Max(player.velocity.y - FALL_ACCEL, -MAX_FALL_SPEED)
                   /\ ~s1.grounded
                   /\ player.velocity.y = -MAX_FALL_SPEED
                        => s1.velocity.y = -MAX_FALL_SPEED)
    /\ [](player.steps_run >= 1 => player.velocity.y >= -MAX_FALL_SPEED)

\* the seventh falling step has brought the actor to the fall speed limit
C25_Witness ==
    /\ op.name = "tick"
    /\ player.steps_run = 1
    /\ ~player.grounded
    /\ player.velocity.y = -MAX_FALL_SPEED

\* C26: in every state reachable from spawn by input events, advance()
\* calls, contact resolutions and boundary clamps, observed when an
\* operation has returned, grounded is true exactly when the motion state
\* is not Jumping.
C26_GroundedIffNotJumping ==
    player.grounded = (player.currentState # "Jumping")

\* a launched actor: PressJump has made a grounded actor airborne and
\* Jumping
C26_Witness ==
    /\ Launched
    /\ ~player.grounded
    /\ player.currentState = "Jumping"
    /\ player.velocity.y > 0

\* the change of position.x made by the step() of the operation just run:
\* in a tick the step starts from the position the boundary clamp left
StepDx ==
    player'.pos.x - (IF op'.name = "tick"
                     THEN boundary_clamp(begin(player)).pos.x
                     ELSE player.pos.x)

\* C27 as stated: in one step() the actor's horizontal position changes by
\* at most MAX_MOVE_SPEED in absolute value.
C27_Original ==
    [][player'.steps_run = 1 => Abs(StepDx) <= MAX_MOVE_SPEED]_vars

\* C27 amended: in one step() the actor's horizontal position changes by
\* at most MAX_MOVE_SPEED + MOVE_ACCEL in absolute value: step() adds the
\* velocity to the position before update_movement clamps it, so the
\* change is the unclamped velocity and the velocity kept is its clamp.
C27_StepDisplacement ==
    [][player'.steps_run = 1
       => (/\ Abs(StepDx) <= MAX_MOVE_SPEED + MOVE_ACCEL
           /\ player'.velocity.x =
                 Min(Max(StepDx, -MAX_MOVE_SPEED), MAX_MOVE_SPEED))]_vars

\* five steps of walking right after the first tick's clamp: the fifth
\* moved the actor by MAX_MOVE_SPEED + MOVE_ACCEL (15 + 30 + 45 + 60 + 75
\* sixths from the clamp position) and left velocity.x at MAX_MOVE_SPEED
C27_Witness ==
    /\ op.name = "tick"
    /\ ticks = 6
    /\ player.steps_run = 1
    /\ player.velocity.x = MAX_MOVE_SPEED
    /\ player.pos.x = -(WINDOW_WIDTH \div 2) + 5 * Scale
                      + 10 * MOVE_ACCEL + MAX_MOVE_SPEED + MOVE_ACCEL

\* the three collision handles are registered
Registered ==
    /\ player.col_handle = PlayerHandle
    /\ coin.col_handle = CoinHandle
    /\ vending.col_handle = VendingHandle

\* C28: in every run of the program the collision handles of the player,
\* the coin and the vending machine are registered before the first key
\* event, tick or contact resolution and are never cleared afterwards, and
\* the missing-handle abort is never reached.
C28_HandlesRegistered ==
    /\ [](pc # "aborted")
    /\ [](pc # "setup" => Registered)
    /\ []((ticks > 0 \/ op.name \in {"key_down", "key_up", "tick", "contact"})
            => Registered)
    /\ [][Registered => Registered']_vars

\* the second tick's contact event was resolved through the coin's handle
\* query without an abort
C28_Witness ==
    /\ op.name = "contact"
    /\ ticks = 2
    /\ InvolvesCoin(op.arg)
    /\ coin.pickedup
    /\ Registered
    /\ pc = "idle"

\* C29: step() never changes the motion state, the facing direction or the
\* movement intent, and from every reachable state it never changes
\* grounded.
C29_StepKeepsState ==
    /\ [](LET s1 == step(begin(player))
          IN  /\ s1.currentState = player.currentState
              /\ s1.dir = player.dir
              /\ s1.moving = player.moving
              /\ s1.grounded = player.grounded)
    /\ [][(SteppedAsIs /\ op'.name = "tick")
          => (/\ player'.currentState = player.currentState
              /\ player'.dir = player.dir
              /\ player'.moving = player.moving
              /\ player'.grounded = player.grounded)]_vars
    /\ [][(player'.grounded # player.grounded)
          => (IF player'.grounded
              THEN player'.last_input = "Landed"
              ELSE player'.last_input = "PressJump")]_vars

\* a tick has stepped a walking actor: it moved and is still grounded,
\* Walking, with its facing and intent
C29_Witness ==
    /\ op.name = "tick"
    /\ player.steps_run = 1
    /\ player.grounded
    /\ player.currentState = "Walking"
    /\ player.moving
    /\ player.dir = "Left"
    /\ player.velocity.x < 0

\* C30: the actor's time never exceeds jump_time, so step() applies no
\* gravity to a grounded actor: in every reachable state a step() on a
\* grounded actor leaves position.y and velocity.y unchanged.
C30_NoGravityOnGround ==
    /\ [](player.time <= player.jump_time)
    /\ [](player.grounded
            => LET s1 == step(begin(player))
               IN  /\ s1.pos.y = player.pos.y
                   /\ s1.velocity.y = player.velocity.y)
    /\ [][(op'.name = "tick" /\ player'.steps_run = 1 /\ player.grounded)
          => (/\ player'.pos.y = player.pos.y
              /\ player'.velocity.y = player.velocity.y)]_vars

\* a tick has stepped a grounded actor that rests where the ground
\* contact put it
C30_Witness ==
    /\ op.name = "tick"
    /\ player.steps_run = 1
    /\ player.grounded
    /\ player.velocity.y = 0
    /\ player.velocity.x # 0
    /\ player.pos.y = world_to_screen_coords(world[GroundHandle]).y
                      + FERRIS_HEIGHT + 50 * Scale

\* positions at and around the two edges the frame driver tests, up to
\* two steps of the largest displacement past them
EdgeXs ==
    LET lo == -(WINDOW_WIDTH \div 2)
        hi == WINDOW_WIDTH \div 2 - 226 * Scale
        far == MAX_MOVE_SPEED + MOVE_ACCEL
    IN  {e + d : e \in {lo, hi}, d \in {-2 * far, -far, -1, 0, 1, far, 2 * far}}

\* the end of a tick that starts from actor p lies in the window widened
\* by one step, and at rest without intent if p was outside the window
TickEndsInWindow(p) ==
    LET q == advance(boundary_clamp(p))
    IN  /\ q.pos.x >= -(WINDOW_WIDTH \div 2) - (MAX_MOVE_SPEED + MOVE_ACCEL)
        /\ q.pos.x <= WINDOW_WIDTH \div 2 - 226 * Scale
                       + (MAX_MOVE_SPEED + MOVE_ACCEL)
        /\ OutOfBounds(p) => (q.velocity.x = 0 /\ ~q.moving)

\* C31: at the end of every tick of the frame driver position.x lies
\* within [-WINDOW_WIDTH/2 - (MAX_MOVE_SPEED + MOVE_ACCEL),
\* WINDOW_WIDTH/2 - 226 + (MAX_MOVE_SPEED + MOVE_ACCEL)], whatever key
\* events came between the ticks; and a tick that starts with position.x
\* outside [-WINDOW_WIDTH/2, WINDOW_WIDTH/2 - 226] ends with
\* velocity.x = 0 and no movement intent. The same holds for a tick that
\* finds the actor, in any reachable motion state, at either edge.
C31_TickKeepsInWindow ==
    /\ [][op'.name = "tick"
          => (/\ player'.pos.x >= -(WINDOW_WIDTH \div 2)
                                  - (MAX_MOVE_SPEED + MOVE_ACCEL)
              /\ player'.pos.x <= WINDOW_WIDTH \div 2 - 226 * Scale
                                  + (MAX_MOVE_SPEED + MOVE_ACCEL)
              /\ (OutOfBounds(player)
                    => (/\ player'.velocity.x = 0
                        /\ ~player'.moving)))]_vars
    /\ [](\A x \in EdgeXs :
            TickEndsInWindow([begin(player) EXCEPT !.pos.x = x]))

\* a tick after the first found the actor past the left edge, where
\* walking left had taken it, and put it back at rest 5 units inside
C31_Witness ==
    /\ op.name = "tick"
    /\ ticks >= 3
    /\ player.grounded
    /\ player.last_input = "UpdateMovement"
    /\ player.steps_run = 1
    /\ player.pos.x = -(WINDOW_WIDTH \div 2) + 5 * Scale
    /\ player.velocity.x = 0
    /\ ~player.moving
    /\ gameInput = <<"Left">>

====
